---- MODULE Spec2Model ----
(***************************************************************************)
(* Grub.io: event-scoped food sharing on a shared document store.          *)
(*                                                                         *)
(* The model has two parts over one set of variables:                      *)
(*   Spec       the post / claim lifecycle of app/event/[id].tsx and       *)
(*              app/event/create-post.tsx (posts, notifications, the       *)
(*              claimPost invocations in flight);                          *)
(*   SpecEvent  event creation and joining of app/create-event.tsx,        *)
(*              app/join-event.tsx and the QR scanner screen.              *)
(*                                                                         *)
(* Every async handler is cut at its awaits: one action per store call,    *)
(* so that other clients' steps interleave exactly where the event loop    *)
(* lets them.  A store call may reject; the handler's catch block is the   *)
(* "Fail" action of that step.                                             *)
(*                                                                         *)
(* In Spec a press reads the active-posts snapshot as the listener would   *)
(* deliver it at that moment.  A press on an older snapshot is the same    *)
(* invocation (same arguments) taken when that snapshot was current and    *)
(* waiting longer at its first await, so every write a stale client can    *)
(* issue is issued here by an invocation that is still in flight.          *)
(***************************************************************************)
EXTENDS Integers, Sequences, FiniteSets, TLC

\* --------------------------------------------------------------- bounds
\* Number of posts ever created (addDoc calls of createPost that succeed).
MaxPosts == 2
\* Number of claimPost invocations in flight (suspended at an await) at once.
MaxInFlight == 2
\* Number of notification documents ever created.
MaxNotifications == 2

\* ------------------------------------------------------------ identities
\* null / absent, as stored in claimedBy, claimedByName, claimedByEmail.
Null == "null"

\* Signed-in identities; each is one client (auth.currentUser of a device).
\* dee is a fourth account that only appears as the author of stored posts.
Users == {"ann", "bob", "cy"}

\* users/{uid}.displayName as claimPost and createPost read it:
\* userDoc.exists() ? userDoc.data().displayName : null.  bob and cy have no user
\* document (signUp's setDoc failed after the account was created).
UserName(u) ==
  CASE u = "ann" -> "Ann"
    [] u = "bob" -> Null
    [] u = "cy"  -> Null
    [] u = "dee" -> "Dee"

\* currentUser.email (string | null): cy's account carries no email.
UserEmail(u) ==
  CASE u = "ann" -> "ann@x"
    [] u = "bob" -> "bob@x"
    [] u = "cy"  -> Null
    [] u = "dee" -> "dee@x"

\* String.prototype.trim
RECURSIVE TrimStart(_)
TrimStart(s) == IF s # <<>> /\ Head(s) = " " THEN TrimStart(Tail(s)) ELSE s
RECURSIVE TrimEnd(_)
TrimEnd(s) == IF s # <<>> /\ s[Len(s)] = " " THEN TrimEnd(SubSeq(s, 1, Len(s) - 1)) ELSE s
Trim(s) == TrimEnd(TrimStart(s))

\* What each user types into the create-post form: title, description, location
\* (strings as sequences of characters; location may be left empty).
FormTitle(u) ==
  CASE u = "ann" -> <<"P", "i">>
    [] u = "bob" -> <<"T", "a">>
    [] u = "cy"  -> <<"X", " ", "P", "i">>
    [] u = "dee" -> <<"T", "a">>
FormDescription(u) ==
  CASE u = "ann" -> <<"h", "o", "t">>
    [] u = "bob" -> <<"p", "i", "t", "a">>
    [] u = "cy"  -> <<"n", "e", "w">>
    [] u = "dee" -> <<"h", "o", "t">>
FormLocation(u) ==
  CASE u = "ann" -> <<>>
    [] u = "bob" -> <<"A", "t", "r", "i", "a">>
    [] u = "cy"  -> <<"h", "a", "l", "l">>
    [] u = "dee" -> <<>>

\* Route parameter `id` of the event screen: the parent of a posts collection.
\* Spec follows the posts collection of one event.
EventIds == {1}

VARIABLES
  posts,          \* events/{id}/posts: sequence of documents, by createdAt
  notifications,  \* notifications collection: sequence of documents, by createdAt
  tasks,          \* claimPost invocations in flight: slot -> position and arguments
  atCompletion,   \* history: per post, claimedBy when completed became true
  completedBy,    \* history: per post, the user whose markComplete completed it
  events,         \* events collection: document id -> document
  calls,          \* createEvent / join invocations in flight: slot -> position
  outcome,        \* what the handler that finished last showed: alert and route
  overlapped,     \* history: two createEvent invocations have been in flight together
  stack,          \* navigation stack of one device: mounted routes, top last
  live,           \* onSnapshot subscriptions that are open: id, kind, owning screen
  registry,       \* firestoreListeners registry: ids of the registered unsubscribe handles
  subCount,       \* subscriptions opened so far
  authUser,       \* auth.currentUser
  ctxUser,        \* AuthContext user, as onAuthStateChanged last delivered it
  signOutPending, \* logout is suspended at `await signOut(auth)`
  feedPosts,      \* event screen state `posts`: the active-posts snapshot last delivered
  allPosts,       \* event screen state `allPosts`: the all-posts snapshot last delivered
  searchQuery,    \* event screen state `searchQuery`
  filteredPosts,  \* event screen state `filteredPosts`: what the feed tab lists
  analytics,      \* what the analytics tab shows: empty while closed, else one rendering
  unreadCount,    \* home screen state `unreadCount`: snapshot.size of the unread listener
  unreadDocs,     \* history: the documents of the unread snapshot delivered last
  scanned,        \* scanner screen state `scanned` as rendered last: what the handler sees
  scannedSet      \* scanner screen state `scanned` as setScanned set it last

postVars == <<posts, notifications, tasks, atCompletion, completedBy>>
eventVars == <<events, calls, outcome, overlapped>>
sessionVars == <<stack, live, registry, subCount, authUser, ctxUser, signOutPending>>
viewVars == <<feedPosts, allPosts, searchQuery, filteredPosts, analytics>>
inboxVars == <<unreadCount, unreadDocs>>
scanVars == <<scanned, scannedSet>>
vars == <<posts, notifications, tasks, atCompletion, completedBy, events, calls, outcome, overlapped,
          stack, live, registry, subCount, authUser, ctxUser, signOutPending,
          feedPosts, allPosts, searchQuery, filteredPosts, analytics,
          unreadCount, unreadDocs,
          scanned, scannedSet>>

PostIds == 1..Len(posts)
Slots == 1..MaxInFlight

\* A slot holding no invocation.
Idle == [pc |-> "idle"]
InFlight == {i \in Slots : tasks[i].pc # "idle"}
FreeSlot == CHOOSE i \in Slots : tasks[i].pc = "idle" /\ \A j \in 1..(i - 1) : tasks[j].pc # "idle"

\* ------------------------------------------------------- store operations
\* An unclaim that clears the uid and leaves the claimant's name and email behind.
UnclaimFieldsUidOnly(d) == [d EXCEPT !.claimedBy = Null]

\* updateDoc(postRef, {claimedBy: null, claimedByName: null, claimedByEmail: null})
UnclaimFields(d) ==
  [d EXCEPT !.claimedBy = Null, !.claimedByName = Null, !.claimedByEmail = Null]

\* A conditional write (compare-and-swap on claimedBy) in place of the plain merge.
ClaimFieldsIfUnclaimed(d, uid, name, email) ==
  IF d.claimedBy = Null
    THEN [d EXCEPT !.claimedBy = uid, !.claimedByName = name, !.claimedByEmail = email]
    ELSE d

\* A write of the whole rendered item (completed: false in every active snapshot)
\* in place of the three-field merge.
ClaimFieldsWholeItem(d, uid, name, email) ==
  [d EXCEPT !.claimedBy = uid, !.claimedByName = name, !.claimedByEmail = email,
            !.completed = FALSE]

\* updateDoc(postRef, {claimedBy: uid, claimedByName: userName, claimedByEmail: email}):
\* a field merge, unconditional on the stored document.
ClaimFields(d, uid, name, email) ==
  [d EXCEPT !.claimedBy = uid, !.claimedByName = name, !.claimedByEmail = email]

\* updateDoc(postRef, {completed: true})
CompleteFields(d) == [d EXCEPT !.completed = TRUE]

\* The document createPost adds.
NewPost(u, e) ==
  [eventId |-> e, title |-> Trim(FormTitle(u)), description |-> Trim(FormDescription(u)),
   location |-> Trim(FormLocation(u)),
   userId |-> u, userName |-> UserName(u), userEmail |-> UserEmail(u),
   claimedBy |-> Null, claimedByName |-> Null, claimedByEmail |-> Null,
   completed |-> FALSE]

\* The active-posts query without its completed filter.
UnfilteredQuery(e) == {p \in PostIds : posts[p].eventId = e}

\* query(postsRef, where("completed", "==", false), orderBy("createdAt", "desc"))
ActiveQuery(e) == {p \in PostIds : posts[p].eventId = e /\ ~posts[p].completed}

\* query(postsRef, orderBy("createdAt", "desc")): the all-posts feed of analytics.
AllPostsQuery(e) == {p \in PostIds : posts[p].eventId = e}

\* snapshot.docs.map(doc => ({id: doc.id, ...doc.data()})): the copy a client keeps.
Snapshot(e) == [p \in ActiveQuery(e) |-> posts[p]]

\* ------------------------------------------------------------ event store
\* Number of event documents ever created (addDoc calls of createEvent that succeed).
MaxEvents == 2
\* Number of createEvent / join invocations in flight at once.
MaxCalls == 2
\* Length of a join code; generateJoinCode draws 6 characters.
CodeLen == 1

\* Strings are sequences of characters.  generateJoinCode draws from 36 characters.
Alphabet == {"A", "B"}
Codes == [1..CodeLen -> Alphabet]

\* String.prototype.toUpperCase on the characters that occur.
ToUpperChar(c) ==
  CASE c = "a" -> "A"
    [] c = "b" -> "B"
    [] c = "c" -> "C"
    [] OTHER   -> c
ToUpper(s) == [i \in 1..Len(s) |-> ToUpperChar(s[i])]

\* data.startsWith(p) and data.substring(n)
StartsWith(s, p) == Len(s) >= Len(p) /\ SubSeq(s, 1, Len(p)) = p
Substring(s, n) == SubSeq(s, n + 1, Len(s))

\* The QR payload prefix, "GRUBIO:".
Prefix == <<"G", "R", "U", "B", "I", "O", ":">>
\* Share tab: value={`GRUBIO:${event.joinCode}`}
SharePayload(code) == Prefix \o code

\* Text field of the join screen: maxLength={6}, the length of a join code; the
\* field takes no character beyond it.
FieldMaxLength == CodeLen
MaxLength(text) == SubSeq(text, 1, IF Len(text) < FieldMaxLength THEN Len(text) ELSE FieldMaxLength)
\* onChangeText={(text) => setJoinCode(text.toUpperCase())}
TypedField(text) == ToUpper(MaxLength(text))
\* handleJoinEvent: joinCode.trim().toUpperCase()
TypedCode(joinCode) == ToUpper(Trim(joinCode))
\* barcodeScanned: (data.startsWith("GRUBIO:") ? data.substring(7) : data).toUpperCase()
ScannedCode(data) == ToUpper(IF StartsWith(data, Prefix) THEN Substring(data, 7) ELSE data)

\* What users type and what scanners read.
TypedTexts == {<<"a">>, <<"B">>, <<"b", " ">>, <<" ", "a">>, <<" ", "b", " ">>, <<"c">>, <<" ">>}
ScannedData == {SharePayload(<<"A">>), SharePayload(<<"B">>), SharePayload(<<"b">>), <<"b">>, <<"c">>}

\* Identities that create and join events in SpecEvent.
Members == {"ann", "bob"}

EventDocIds == 1..MaxEvents
CallSlots == 1..MaxCalls
Range(f) == {f[x] : x \in DOMAIN f}

\* An append that drops the oldest element.
ArrayShift(arr, x) == Append(Tail(arr), x)
\* arrayUnion(uid): a plain push in place of the set-like union.
ArrayPush(arr, x) == Append(arr, x)
\* arrayUnion(uid): the array replaced by [uid].
ArrayReplace(arr, x) == <<x>>
\* arrayUnion(uid): append unless present.
ArrayUnion(arr, x) == IF x \in Range(arr) THEN arr ELSE Append(arr, x)

\* addDoc(eventRef, {..., createdBy: user.uid, attendees: [user.uid], joinCode, ...})
NewEvent(u, code) ==
  [title |-> "Picnic", description |-> "Leftovers", date |-> "2026-01-01",
   createdBy |-> u, attendees |-> <<u>>, joinCode |-> code]

\* A lookup that returns every event.
MatchesAll(code) == DOMAIN events
\* query(eventsRef, where("joinCode", "==", code)): ids of the matching documents.
Matches(code) == {e \in DOMAIN events : events[e].joinCode = code}
\* snapshot.docs[0]: without orderBy, results come in document-id order.
FirstDoc(m) == CHOOSE e \in m : \A f \in m : e <= f

\* An allocator without the existence check.
NoUniquenessCheck(code) == TRUE
\* isJoinCodeUnique: snapshot.empty.  create-event.tsx imports only addDoc,
\* collection and Timestamp from firebase/firestore; where query, where and getDocs
\* do not resolve, the call throws and createEvent ends in its catch block
\* (CreateEventFail).
IsJoinCodeUnique(code) == Matches(code) = {}

\* What a handler showed when it finished: Alert.alert title (Null if none) and
\* the ids passed to router.replace("/event/[id]").
Shown(alert, route) == [alert |-> alert, route |-> route]

\* Codes that no event has.
UnusedCodes == {c \in Codes : Matches(c) = {}}
CreatesInFlight == {i \in CallSlots : calls[i].pc \in {"isJoinCodeUnique", "addDoc"}}
FreeCall == CHOOSE i \in CallSlots : calls[i].pc = "idle" /\ \A j \in 1..(i - 1) : calls[j].pc # "idle"

\* ----------------------------------------------------------------- Init
Init ==
  /\ posts = <<>>
  /\ notifications = <<>>
  /\ tasks = [i \in Slots |-> Idle]
  /\ atCompletion = <<>>
  /\ completedBy = <<>>
  /\ events = <<>>
  /\ calls = [i \in CallSlots |-> Idle]
  /\ outcome = Shown(Null, <<>>)
  /\ overlapped = FALSE
  /\ stack = <<"/login">>
  /\ live = {}
  /\ registry = {}
  /\ subCount = 0
  /\ authUser = Null
  /\ ctxUser = Null
  /\ signOutPending = FALSE
  /\ feedPosts = <<>>
  /\ allPosts = <<>>
  /\ searchQuery = <<>>
  /\ filteredPosts = <<>>
  /\ analytics = <<>>
  /\ unreadCount = 0
  /\ unreadDocs = {}
  /\ scanned = FALSE
  /\ scannedSet = FALSE

\* ------------------------------------------------------------ createPost
\* createPost on the create-post screen opened from event e ("Post Food").
CreatePost(u, e) ==
  /\ Len(posts) < MaxPosts
  /\ posts' = Append(posts, NewPost(u, e))
  /\ atCompletion' = Append(atCompletion, "open")
  /\ completedBy' = Append(completedBy, Null)
  /\ UNCHANGED eventVars
  /\ UNCHANGED sessionVars
  /\ UNCHANGED <<notifications, tasks>>
  /\ UNCHANGED viewVars
  /\ UNCHANGED inboxVars
  /\ UNCHANGED scanVars

\* getDoc or addDoc rejects: catch, Alert("Error", ...); nothing is written.
CreatePostFail(u, e) ==
  /\ Len(posts) < MaxPosts
  /\ UNCHANGED vars

\* ------------------------------------------------------------- claimPost
\* A claim control rendered for the owner as well.
ClaimControlForOwnerToo(u, item) == ~(item.claimedBy # Null /\ item.claimedBy # u)

\* A claim control without the `disabled` attribute.
ClaimControlNeverDisabled(u, item) == item.userId # u

\* renderPost: the claim control exists for non-owners only and is disabled
\* when the rendered item is claimed by somebody else.
ClaimControlEnabled(u, item) ==
  /\ item.userId # u
  /\ ~(item.claimedBy # Null /\ item.claimedBy # u)

\* onPress={() => claimPost(item.id, item.claimedBy || null, item.userId, item.title)}
\* up to and including `await getDoc(doc(db, "users", currentUser.uid))`.
\* The arguments are those of the rendered item, i.e. of the client's snapshot.
ClaimInvocation(u, e, p, item) ==
  [user |-> u, eventId |-> e, postId |-> p,
   currentClaimedBy |-> item.claimedBy, postOwnerId |-> item.userId,
   userName |-> UserName(u), pc |-> "updateDoc"]

\* currentClaimedBy === currentUser.uid: the unclaim branch.
IsUnclaim(t) == t.currentClaimedBy = t.user

\* Invocations in flight that will still add a notification.
PendingNotifications ==
  Cardinality({i \in InFlight : ~IsUnclaim(tasks[i]) /\ tasks[i].postOwnerId # tasks[i].user})

ClaimPress(u, e, p) ==
  /\ \E i \in Slots : tasks[i].pc = "idle"
  /\ p \in DOMAIN Snapshot(e)
  /\ ClaimControlEnabled(u, Snapshot(e)[p])
  /\ Snapshot(e)[p].claimedBy = u
       \/ Len(notifications) + PendingNotifications < MaxNotifications
  /\ tasks' = [tasks EXCEPT ![FreeSlot] = ClaimInvocation(u, e, p, Snapshot(e)[p])]
  /\ UNCHANGED eventVars
  /\ UNCHANGED sessionVars
  /\ UNCHANGED <<posts, notifications, atCompletion, completedBy>>
  /\ UNCHANGED viewVars
  /\ UNCHANGED inboxVars
  /\ UNCHANGED scanVars

\* The user-document read rejects: catch, Alert("Error", "Could not update claim
\* status."); the invocation ends before its first write.
ClaimPressFail(u, e, p) ==
  /\ p \in DOMAIN Snapshot(e)
  /\ ClaimControlEnabled(u, Snapshot(e)[p])
  /\ UNCHANGED vars

\* The document the invocation's updateDoc leaves in the store.
ClaimWrite(d, t) ==
  IF IsUnclaim(t)
    THEN UnclaimFields(d)
    ELSE ClaimFields(d, t.user, t.userName, UserEmail(t.user))

\* An invocation that ends after its updateDoc.
AfterUpdateNoNotification(t) == Idle

\* Position after the updateDoc: the unclaim branch alerts "Unclaimed" and ends;
\* the claim branch goes on to the notification when the owner is another user.
AfterUpdate(t) ==
  IF ~IsUnclaim(t) /\ t.postOwnerId # t.user
    THEN [t EXCEPT !.pc = "addDoc"]
    ELSE Idle

\* await updateDoc(postRef, {...}) resolves.
ClaimUpdate(i) ==
  /\ tasks[i].pc = "updateDoc"
  /\ posts' = [posts EXCEPT ![tasks[i].postId] = ClaimWrite(@, tasks[i])]
  /\ tasks' = [tasks EXCEPT ![i] = AfterUpdate(@)]
  /\ UNCHANGED eventVars
  /\ UNCHANGED sessionVars
  /\ UNCHANGED <<notifications, atCompletion, completedBy>>
  /\ UNCHANGED viewVars
  /\ UNCHANGED inboxVars
  /\ UNCHANGED scanVars

\* await updateDoc rejects: catch, Alert("Error", ...).
ClaimUpdateFail(i) ==
  /\ tasks[i].pc = "updateDoc"
  /\ tasks' = [tasks EXCEPT ![i] = Idle]
  /\ UNCHANGED eventVars
  /\ UNCHANGED sessionVars
  /\ UNCHANGED <<posts, notifications, atCompletion, completedBy>>
  /\ UNCHANGED viewVars
  /\ UNCHANGED inboxVars
  /\ UNCHANGED scanVars

\* `${userName || currentUser.email}`; a null email is printed as the text "null",
\* which is what Null stands for.
ClaimantLabel(t) == IF t.userName # Null THEN t.userName ELSE UserEmail(t.user)

\* A notification addressed to the actor.
NotificationToActor(t) ==
  [userId |-> t.user, type |-> "claim", message |-> ClaimantLabel(t),
   eventId |-> t.eventId, postId |-> t.postId, read |-> FALSE]

\* addDoc(notificationsRef, {userId: postOwnerId, type: "claim", message, eventId: id,
\* postId, read: false, createdAt}).
NewNotification(t) ==
  [userId |-> t.postOwnerId, type |-> "claim", message |-> ClaimantLabel(t),
   eventId |-> t.eventId, postId |-> t.postId, read |-> FALSE]

\* await addDoc(notificationsRef, {...}) resolves.
ClaimNotify(i) ==
  /\ tasks[i].pc = "addDoc"
  /\ notifications' = Append(notifications, NewNotification(tasks[i]))
  /\ tasks' = [tasks EXCEPT ![i] = Idle]
  /\ UNCHANGED eventVars
  /\ UNCHANGED sessionVars
  /\ UNCHANGED <<posts, atCompletion, completedBy>>
  /\ UNCHANGED viewVars
  /\ UNCHANGED inboxVars
  /\ UNCHANGED scanVars

\* await addDoc rejects: catch, Alert("Error", ...); the claim is already stored.
ClaimNotifyFail(i) ==
  /\ tasks[i].pc = "addDoc"
  /\ tasks' = [tasks EXCEPT ![i] = Idle]
  /\ UNCHANGED eventVars
  /\ UNCHANGED sessionVars
  /\ UNCHANGED <<posts, notifications, atCompletion, completedBy>>
  /\ UNCHANGED viewVars
  /\ UNCHANGED inboxVars
  /\ UNCHANGED scanVars

\* ---------------------------------------------------------- markComplete
\* A "Mark Complete" control rendered for every viewer.
CompleteControlForAll(u, item) == TRUE

\* renderPost: {isOwner && (... onPress={() => markComplete(item.id)} ...)}
CompleteControlShown(u, item) == item.userId = u

\* renderPost offers "Mark Complete" on the items of the feed the client owns.
MarkComplete(u, e, p) ==
  /\ p \in DOMAIN Snapshot(e)
  /\ CompleteControlShown(u, Snapshot(e)[p])
  /\ posts' = [posts EXCEPT ![p] = CompleteFields(@)]
  /\ atCompletion' = [atCompletion EXCEPT ![p] =
                        IF posts[p].completed THEN @ ELSE posts[p].claimedBy]
  /\ completedBy' = [completedBy EXCEPT ![p] = IF posts[p].completed THEN @ ELSE u]
  /\ UNCHANGED eventVars
  /\ UNCHANGED sessionVars
  /\ UNCHANGED <<notifications, tasks>>
  /\ UNCHANGED viewVars
  /\ UNCHANGED inboxVars
  /\ UNCHANGED scanVars

\* updateDoc rejects: catch, Alert("Error", "Could not mark as complete.").
MarkCompleteFail(u, e, p) ==
  /\ p \in DOMAIN Snapshot(e)
  /\ CompleteControlShown(u, Snapshot(e)[p])
  /\ UNCHANGED vars

\* ------------------------------------------------------------------ Spec
Next ==
  \/ \E u \in Users, e \in EventIds : CreatePost(u, e)
  \/ \E u \in Users, e \in EventIds : CreatePostFail(u, e)
  \/ \E u \in Users, e \in EventIds, p \in PostIds : ClaimPress(u, e, p)
  \/ \E u \in Users, e \in EventIds, p \in PostIds : ClaimPressFail(u, e, p)
  \/ \E i \in Slots : ClaimUpdate(i)
  \/ \E i \in Slots : ClaimUpdateFail(i)
  \/ \E i \in Slots : ClaimNotify(i)
  \/ \E i \in Slots : ClaimNotifyFail(i)
  \/ \E u \in Users, e \in EventIds, p \in PostIds : MarkComplete(u, e, p)
  \/ \E u \in Users, e \in EventIds, p \in PostIds : MarkCompleteFail(u, e, p)

Spec == Init /\ [][Next]_vars

\* ----------------------------------------------------------- createEvent
\* createEvent, early returns: no signed-in user or an empty form field.
CreateEventInvalid(u) ==
  /\ outcome' = Shown("Error", <<>>)
  /\ UNCHANGED <<events, calls, overlapped>>
  /\ UNCHANGED postVars
  /\ UNCHANGED sessionVars
  /\ UNCHANGED viewVars
  /\ UNCHANGED inboxVars
  /\ UNCHANGED scanVars

\* createEvent up to its first await: joinCode = generateJoinCode().  At most
\* MaxEvents documents are ever written: an invocation starts while the documents
\* and the invocations in flight stay below MaxEvents, or when every code is in use
\* (events are never deleted, so such an invocation never gets to addDoc).
CreateEventPress(u, code) ==
  /\ \E i \in CallSlots : calls[i].pc = "idle"
  /\ UnusedCodes # {} => Cardinality(DOMAIN events) + Cardinality(CreatesInFlight) < MaxEvents
  /\ calls' = [calls EXCEPT ![FreeCall] =
                 [kind |-> "createEvent", user |-> u, joinCode |-> code,
                  pc |-> "isJoinCodeUnique"]]
  /\ overlapped' = (overlapped \/ CreatesInFlight # {})
  /\ UNCHANGED <<events, outcome>>
  /\ UNCHANGED postVars
  /\ UNCHANGED sessionVars
  /\ UNCHANGED viewVars
  /\ UNCHANGED inboxVars
  /\ UNCHANGED scanVars

\* isJoinCodeUnique resolves: leave the loop with this code, or redraw and recheck.
CreateEventCheck(i, redraw) ==
  /\ calls[i].pc = "isJoinCodeUnique"
  /\ calls' = [calls EXCEPT ![i] =
                 IF IsJoinCodeUnique(@.joinCode)
                   THEN [@ EXCEPT !.pc = "addDoc"]
                   ELSE [@ EXCEPT !.joinCode = redraw]]
  /\ UNCHANGED <<events, outcome, overlapped>>
  /\ UNCHANGED postVars
  /\ UNCHANGED sessionVars
  /\ UNCHANGED viewVars
  /\ UNCHANGED inboxVars
  /\ UNCHANGED scanVars

\* addDoc resolves under a fresh document id; router.replace to the new event.
CreateEventAdd(i, id) ==
  /\ calls[i].pc = "addDoc"
  /\ id \notin DOMAIN events
  /\ events' = [e \in DOMAIN events \cup {id} |->
                  IF e = id THEN NewEvent(calls[i].user, calls[i].joinCode) ELSE events[e]]
  /\ calls' = [calls EXCEPT ![i] = Idle]
  /\ outcome' = Shown(Null, <<id>>)
  /\ UNCHANGED overlapped
  /\ UNCHANGED postVars
  /\ UNCHANGED sessionVars
  /\ UNCHANGED viewVars
  /\ UNCHANGED inboxVars
  /\ UNCHANGED scanVars

\* Either await throws: catch, Alert.alert("Error", error.message).
CreateEventFail(i) ==
  /\ i \in CreatesInFlight
  /\ calls' = [calls EXCEPT ![i] = Idle]
  /\ outcome' = Shown("Error", <<>>)
  /\ UNCHANGED <<events, overlapped>>
  /\ UNCHANGED postVars
  /\ UNCHANGED sessionVars
  /\ UNCHANGED viewVars
  /\ UNCHANGED inboxVars
  /\ UNCHANGED scanVars

\* ------------------------------------------------------------------ join
JoinInvocation(u, via, code) ==
  [kind |-> "join", via |-> via, user |-> u, joinCode |-> code, pc |-> "getDocs"]

\* handleJoinEvent up to its await; an input that trims to nothing is refused.
JoinTypedPress(u, text) ==
  /\ \E i \in CallSlots : calls[i].pc = "idle"
  /\ IF Trim(TypedField(text)) = <<>>
       THEN /\ outcome' = Shown("Error", <<>>)
            /\ UNCHANGED calls
       ELSE /\ calls' = [calls EXCEPT ![FreeCall] =
                           JoinInvocation(u, "typed", TypedCode(TypedField(text)))]
            /\ UNCHANGED outcome
  /\ UNCHANGED <<events, overlapped>>
  /\ UNCHANGED postVars
  /\ UNCHANGED sessionVars
  /\ UNCHANGED viewVars
  /\ UNCHANGED inboxVars
  /\ UNCHANGED scanVars

\* The user whose scanner screen is followed through its renders; the other
\* users scan with a scanner screen that has just been mounted.
ScanUser == "bob"

\* `scanned` as the callback reads it: onBarcodeScanned={scanned ? undefined :
\* barcodeScanned} and `if (scanned) return` both use the value of the render that
\* created the callback, not what setScanned has set since.
ScannedSeen(rendered, set) == rendered

\* barcodeScanned up to its await: if (scanned) return; setScanned(true); the
\* lookup is started.
JoinScanPress(u, data) ==
  /\ \E i \in CallSlots : calls[i].pc = "idle"
  /\ u = ScanUser => ~ScannedSeen(scanned, scannedSet)
  /\ calls' = [calls EXCEPT ![FreeCall] = JoinInvocation(u, "qr", ScannedCode(data))]
  /\ scannedSet' = (u = ScanUser \/ scannedSet)
  /\ UNCHANGED scanned
  /\ UNCHANGED <<events, outcome, overlapped>>
  /\ UNCHANGED postVars
  /\ UNCHANGED sessionVars
  /\ UNCHANGED viewVars
  /\ UNCHANGED inboxVars

\* getDocs resolves: Not Found, Already Joined (and navigate), or go on to updateDoc.
JoinLookup(i) ==
  /\ calls[i].pc = "getDocs"
  /\ LET m == Matches(calls[i].joinCode)
         e == FirstDoc(m)
     IN IF m = {}
          THEN /\ outcome' = Shown("Not Found", <<>>)
               /\ calls' = [calls EXCEPT ![i] = Idle]
          ELSE IF calls[i].user \in Range(events[e].attendees)
                 THEN /\ outcome' = Shown("Already Joined", <<e>>)
                      /\ calls' = [calls EXCEPT ![i] = Idle]
                 ELSE /\ calls' = [calls EXCEPT ![i] =
                                     [kind |-> "join", via |-> @.via, user |-> @.user,
                                      joinCode |-> @.joinCode, pc |-> "updateDoc",
                                      eventId |-> e]]
                      /\ UNCHANGED outcome
  /\ UNCHANGED <<events, overlapped>>
  /\ UNCHANGED postVars
  /\ UNCHANGED sessionVars
  /\ UNCHANGED viewVars
  /\ UNCHANGED inboxVars
  /\ UNCHANGED scanVars

\* updateDoc(eventRef, {attendees: arrayUnion(user.uid)}) resolves; the typed
\* screen alerts "Success!", the scanner only navigates.
JoinUpdate(i) ==
  /\ calls[i].pc = "updateDoc"
  /\ events' = [events EXCEPT ![calls[i].eventId].attendees = ArrayUnion(@, calls[i].user)]
  /\ outcome' = Shown(IF calls[i].via = "typed" THEN "Success!" ELSE Null,
                      <<calls[i].eventId>>)
  /\ calls' = [calls EXCEPT ![i] = Idle]
  /\ UNCHANGED overlapped
  /\ UNCHANGED postVars
  /\ UNCHANGED sessionVars
  /\ UNCHANGED viewVars
  /\ UNCHANGED inboxVars
  /\ UNCHANGED scanVars

\* Either await throws: catch, Alert.alert("Error", "Could not join event. ...").
JoinFail(i) ==
  /\ calls[i].pc \in {"getDocs", "updateDoc"}
  /\ calls' = [calls EXCEPT ![i] = Idle]
  /\ outcome' = Shown("Error", <<>>)
  /\ UNCHANGED <<events, overlapped>>
  /\ UNCHANGED postVars
  /\ UNCHANGED sessionVars
  /\ UNCHANGED viewVars
  /\ UNCHANGED inboxVars
  /\ UNCHANGED scanVars

NextEvent ==
  \/ \E u \in Members : CreateEventInvalid(u)
  \/ \E u \in Members, code \in Codes : CreateEventPress(u, code)
  \/ \E i \in CallSlots, redraw \in Codes : CreateEventCheck(i, redraw)
  \/ \E i \in CallSlots, id \in EventDocIds : CreateEventAdd(i, id)
  \/ \E i \in CallSlots : CreateEventFail(i)
  \/ \E u \in Members, text \in TypedTexts : JoinTypedPress(u, text)
  \/ \E u \in Members, data \in ScannedData : JoinScanPress(u, data)
  \/ \E i \in CallSlots : JoinLookup(i)
  \/ \E i \in CallSlots : JoinUpdate(i)
  \/ \E i \in CallSlots : JoinFail(i)

SpecEvent == Init /\ [][NextEvent]_vars

\* ---------------------------------------------------------------- scanner
\* The scanner screen renders again with the state setScanned has set: the
\* CameraView gets onBarcodeScanned={scanned ? undefined : barcodeScanned} anew.
ScannerRender ==
  /\ scanned # scannedSet
  /\ scanned' = scannedSet
  /\ UNCHANGED scannedSet
  /\ UNCHANGED eventVars
  /\ UNCHANGED postVars
  /\ UNCHANGED sessionVars
  /\ UNCHANGED viewVars
  /\ UNCHANGED inboxVars

\* The "Scan Again" button of the Not Found and Error alerts: setScanned(false).
ScanAgain ==
  /\ outcome.alert \in {"Not Found", "Error"}
  /\ scannedSet
  /\ scannedSet' = FALSE
  /\ UNCHANGED scanned
  /\ UNCHANGED eventVars
  /\ UNCHANGED postVars
  /\ UNCHANGED sessionVars
  /\ UNCHANGED viewVars
  /\ UNCHANGED inboxVars

\* One scanner screen, from its mount on: the events it can find are created by
\* another user; every callback delivery, render and settled await is a step.
NextScanner ==
  \/ \E code \in Codes : CreateEventPress("ann", code)
  \/ \E i \in CallSlots, redraw \in Codes : CreateEventCheck(i, redraw)
  \/ \E i \in CallSlots, id \in EventDocIds : CreateEventAdd(i, id)
  \/ \E data \in ScannedData : JoinScanPress(ScanUser, data)
  \/ ScannerRender
  \/ ScanAgain
  \/ \E i \in CallSlots : JoinLookup(i)
  \/ \E i \in CallSlots : JoinUpdate(i)
  \/ \E i \in CallSlots : JoinFail(i)

SpecScanner == Init /\ [][NextScanner]_vars

\* createEvent on its own, with the scheduling its awaits have: a pending
\* isJoinCodeUnique or addDoc is eventually settled, and among the draws of a
\* retrying invocation every code comes up again and again (fair random draws).
\* A rejection (CreateEventFail) may happen but is never forced.
NextCreate ==
  \/ \E u \in Members, code \in Codes : CreateEventPress(u, code)
  \/ \E i \in CallSlots, redraw \in Codes : CreateEventCheck(i, redraw)
  \/ \E i \in CallSlots, id \in EventDocIds : CreateEventAdd(i, id)
  \/ \E i \in CallSlots : CreateEventFail(i)

FairDraws ==
  \A i \in CallSlots :
    /\ WF_vars(\E redraw \in Codes : CreateEventCheck(i, redraw))
    /\ WF_vars(\E id \in EventDocIds : CreateEventAdd(i, id))
    /\ \A c \in Codes : SF_vars(CreateEventCheck(i, c) /\ calls'[i].joinCode = c)

SpecCreateFair == Init /\ [][NextCreate]_vars /\ FairDraws

\* --------------------------------------------------------------- session
\* One device: its navigation stack, its listeners and its auth state.
\* Number of onSnapshot subscriptions ever opened on the device.
MaxSubs == 4
\* Number of screens on the navigation stack.
MaxDepth == 2

Top == stack[Len(stack)]

\* The onSnapshot calls of a screen's mount effects, in order, for auth.currentUser
\* = user: HomeScreen and NotificationsScreen return early without a user, the
\* event screen subscribes whenever it has an id.
KindsOpened(route, user) ==
  CASE route = "/event"                          -> <<"active", "all">>
    [] route = "/home" /\ user # Null            -> <<"unread">>
    [] route = "/notifications" /\ user # Null   -> <<"list">>
    [] OTHER                                     -> <<>>

\* The subscriptions a screen mounted at stack position pos opens.
Opened(route, pos, user) ==
  {[id |-> subCount + k, kind |-> KindsOpened(route, user)[k], pos |-> pos] :
     k \in 1..Len(KindsOpened(route, user))}

\* registerUnsubscriber(unsubscribe), once per opened subscription.
Registered(subs) == registry \cup {s.id : s \in subs}

\* clearUnsubscribers(): every registered handle is called; calling the handle of a
\* subscription that is already closed does nothing.
ClearUnsubscribers(subs) == {s \in subs : s.id \notin registry}

\* The useEffect cleanup of the screen at position pos: unsubscribe().
Unmounted(subs, pos) == {s \in subs : s.pos # pos}

\* router.replace(route) issued while `subs` are open: the top screen unmounts,
\* `route` mounts in its place and runs its mount effects.
ReplaceTop(route, subs, user) ==
  /\ subCount + Len(KindsOpened(route, user)) <= MaxSubs
  /\ stack' = [stack EXCEPT ![Len(stack)] = route]
  /\ live' = Unmounted(subs, Len(stack)) \cup Opened(route, Len(stack), user)
  /\ registry' = Registered(Opened(route, Len(stack), user))
  /\ subCount' = subCount + Len(KindsOpened(route, user))

\* router.push(route)
PushScreen(route) ==
  /\ Len(stack) < MaxDepth
  /\ subCount + Len(KindsOpened(route, authUser)) <= MaxSubs
  /\ stack' = Append(stack, route)
  /\ live' = live \cup Opened(route, Len(stack) + 1, authUser)
  /\ registry' = Registered(Opened(route, Len(stack) + 1, authUser))
  /\ subCount' = subCount + Len(KindsOpened(route, authUser))

\* signIn: signInWithEmailAndPassword resolves, router.replace("/home").  Auth
\* operations are serialised, so a sign-in takes effect after a pending sign-out.
SignIn(u) ==
  /\ Top = "/login" /\ authUser = Null /\ ~signOutPending
  /\ authUser' = u
  /\ ReplaceTop("/home", live, u)
  /\ UNCHANGED <<ctxUser, signOutPending>>
  /\ UNCHANGED postVars
  /\ UNCHANGED eventVars
  /\ UNCHANGED viewVars
  /\ UNCHANGED inboxVars
  /\ UNCHANGED scanVars

\* AuthProvider: onAuthStateChanged(auth, (u) => { setUser(u); setLoading(false) })
AuthStateChanged ==
  /\ ctxUser # authUser
  /\ ctxUser' = authUser
  /\ UNCHANGED <<stack, live, registry, subCount, authUser, signOutPending>>
  /\ UNCHANGED postVars
  /\ UNCHANGED eventVars
  /\ UNCHANGED viewVars
  /\ UNCHANGED inboxVars
  /\ UNCHANGED scanVars

\* LoginPage effect: if (!loading && user) router.replace("/home")
LoginRedirect ==
  /\ Top = "/login" /\ ctxUser # Null
  /\ ReplaceTop("/home", live, authUser)
  /\ UNCHANGED <<authUser, ctxUser, signOutPending>>
  /\ UNCHANGED postVars
  /\ UNCHANGED eventVars
  /\ UNCHANGED viewVars
  /\ UNCHANGED inboxVars
  /\ UNCHANGED scanVars

\* HomePage effect: if (!loading && !user) router.replace("/login")
HomeRedirect ==
  /\ \E i \in 1..Len(stack) : stack[i] = "/home"
  /\ Top # "/login" /\ ctxUser = Null
  /\ ReplaceTop("/login", live, authUser)
  /\ UNCHANGED <<authUser, ctxUser, signOutPending>>
  /\ UNCHANGED postVars
  /\ UNCHANGED eventVars
  /\ UNCHANGED viewVars
  /\ UNCHANGED inboxVars
  /\ UNCHANGED scanVars

\* HomeScreen: router.push("/notifications"), router.push("/event/[id]")
OpenScreen(route) ==
  /\ Top = "/home"
  /\ PushScreen(route)
  /\ UNCHANGED <<authUser, ctxUser, signOutPending>>
  /\ UNCHANGED postVars
  /\ UNCHANGED eventVars
  /\ UNCHANGED viewVars
  /\ UNCHANGED inboxVars
  /\ UNCHANGED scanVars

\* router.back()
Back ==
  /\ Len(stack) > 1
  /\ stack' = SubSeq(stack, 1, Len(stack) - 1)
  /\ live' = Unmounted(live, Len(stack))
  /\ UNCHANGED <<registry, subCount, authUser, ctxUser, signOutPending>>
  /\ UNCHANGED postVars
  /\ UNCHANGED eventVars
  /\ UNCHANGED viewVars
  /\ UNCHANGED inboxVars
  /\ UNCHANGED scanVars

\* logout up to its await: clearUnsubscribers(); router.replace("/login");
\* signOut(auth) is invoked.
Logout ==
  /\ Top = "/home"
  /\ stack' = [stack EXCEPT ![Len(stack)] = "/login"]
  /\ live' = Unmounted(ClearUnsubscribers(live), Len(stack))
  /\ registry' = {}
  /\ signOutPending' = TRUE
  /\ UNCHANGED <<subCount, authUser, ctxUser>>
  /\ UNCHANGED postVars
  /\ UNCHANGED eventVars
  /\ UNCHANGED viewVars
  /\ UNCHANGED inboxVars
  /\ UNCHANGED scanVars

\* signOut(auth) resolves: the identity is cleared.
SignOutDone ==
  /\ signOutPending
  /\ authUser' = Null
  /\ signOutPending' = FALSE
  /\ UNCHANGED <<stack, live, registry, subCount, ctxUser>>
  /\ UNCHANGED postVars
  /\ UNCHANGED eventVars
  /\ UNCHANGED viewVars
  /\ UNCHANGED inboxVars
  /\ UNCHANGED scanVars

\* Errors a listener can report: FirestoreError code and message.
ListenerErrors ==
  {[code |-> "permission-denied", message |-> "Missing or insufficient permissions."],
   [code |-> "unavailable", message |-> "The service is currently unavailable."],
   [code |-> Null, message |-> "permission-denied"]}

\* const code = err?.code || err?.message
ErrorText(err) == IF err.code # Null THEN err.code ELSE err.message

\* An error handler that never navigates.
IncludesNothing(text) == FALSE
\* String(code).includes("permission-denied"), on the texts that occur.
IncludesPermissionDenied(text) == text = "permission-denied"

\* The error callback of an open subscription runs; the stream is closed.
ListenerError(s, err) ==
  /\ s \in live
  /\ IF IncludesPermissionDenied(ErrorText(err))
       THEN ReplaceTop("/login", live \ {s}, authUser)
       ELSE /\ live' = live \ {s}
            /\ UNCHANGED <<stack, registry, subCount>>
  /\ UNCHANGED <<authUser, ctxUser, signOutPending>>
  /\ UNCHANGED postVars
  /\ UNCHANGED eventVars
  /\ UNCHANGED viewVars
  /\ UNCHANGED inboxVars
  /\ UNCHANGED scanVars

NextSession ==
  \/ \E u \in {"ann"} : SignIn(u)
  \/ AuthStateChanged
  \/ LoginRedirect
  \/ HomeRedirect
  \/ \E route \in {"/notifications", "/event"} : OpenScreen(route)
  \/ Back
  \/ Logout
  \/ SignOutDone
  \/ \E s \in live, err \in ListenerErrors : ListenerError(s, err)

SpecSession == Init /\ [][NextSession]_vars

\* ------------------------------------------- event screen: feed and analytics
\* Posts in the store that SpecView starts from.
MaxStore == 4

\* Documents of the posts collection as createPost, claimPost and markComplete
\* leave them.
StoredPosts ==
  {NewPost("ann", 1),
   CompleteFields(ClaimFields(NewPost("ann", 1), "bob", UserName("bob"), UserEmail("bob"))),
   ClaimFields(NewPost("bob", 1), "ann", UserName("ann"), UserEmail("ann")),
   ClaimFields(NewPost("cy", 1), "bob", UserName("bob"), UserEmail("bob")),
   CompleteFields(NewPost("bob", 1)),
   NewPost("dee", 1)}

\* String.prototype.toLowerCase on the characters that occur.
ToLowerChar(c) ==
  CASE c = "P" -> "p"
    [] c = "T" -> "t"
    [] c = "X" -> "x"
    [] c = "A" -> "a"
    [] c = "I" -> "i"
    [] OTHER   -> c
ToLowerCase(s) == [i \in 1..Len(s) |-> ToLowerChar(s[i])]

\* String.prototype.includes
Includes(s, q) == \E i \in 1..(Len(s) - Len(q) + 1) : SubSeq(s, i, i + Len(q) - 1) = q

\* What is typed into the search box.
Queries == {<<>>, <<" ">>, <<"p", "i">>, <<"P", "I">>, <<" ", "p", "i">>, <<"t", "a">>, <<"z">>}

\* A search box that filters nothing.
NoFilter(list, q) == list
\* The search effect: all posts for a blank query, else the posts whose title,
\* description or location contains the lower-cased query.
SearchFilter(list, q) ==
  IF Trim(q) = <<>> THEN list
  ELSE SelectSeq(list, LAMBDA post :
         \/ Includes(ToLowerCase(post.title), ToLowerCase(q))
         \/ Includes(ToLowerCase(post.description), ToLowerCase(q))
         \/ Includes(ToLowerCase(post.location), ToLowerCase(q)))

\* snapshot.docs.map(doc => ({id: doc.id, ...doc.data()})), orderBy("createdAt", "desc").
ViewDoc(p) == [id |-> p] @@ posts[p]
RECURSIVE Desc(_)
Desc(S) ==
  IF S = {} THEN <<>>
  ELSE LET m == CHOOSE x \in S : \A y \in S : y <= x IN <<m>> \o Desc(S \ {m})
QueryDocs(ids) == [k \in 1..Cardinality(ids) |-> ViewDoc(Desc(ids)[k])]

\* Math.round(n / d) for n >= 0 and d > 0, without the rounding.
MathFloor(n, d) == n \div d
\* Math.round(n / d) for n >= 0 and d > 0: the nearest integer, halves upwards.
MathRound(n, d) == (2 * n + d) \div (2 * d)

\* totalPosts * 0.5 as the decimal JavaScript prints: units and tenths.
Half(n) == [units |-> (5 * n) \div 10, tenths |-> (5 * n) % 10]

\* userPostCounts: the keys in insertion order, and each key's entry.
RECURSIVE KeysInOrder(_)
KeysInOrder(ap) ==
  IF ap = <<>> THEN <<>>
  ELSE LET front == KeysInOrder(SubSeq(ap, 1, Len(ap) - 1))
           u == ap[Len(ap)].userId
       IN IF \E k \in DOMAIN front : front[k] = u THEN front ELSE Append(front, u)
PostCount(ap, u) == Cardinality({i \in DOMAIN ap : ap[i].userId = u})
FirstPostOf(ap, u) == ap[CHOOSE i \in DOMAIN ap : ap[i].userId = u /\ \A j \in 1..(i - 1) : ap[j].userId # u]
\* post.userName || post.userEmail || "Anonymous"
PosterName(post) ==
  IF post.userName # Null THEN post.userName
  ELSE IF post.userEmail # Null THEN post.userEmail ELSE "Anonymous"

\* The entries left in insertion order.
Unsorted(keys, ap) == keys
\* .sort(([, a], [, b]) => b.count - a.count): stable, descending by count.
RECURSIVE SortByCount(_, _)
SortByCount(keys, ap) ==
  IF keys = <<>> THEN <<>>
  ELSE LET front == SortByCount(SubSeq(keys, 1, Len(keys) - 1), ap)
           u == keys[Len(keys)]
           n == Cardinality({k \in DOMAIN front : PostCount(ap, front[k]) >= PostCount(ap, u)})
       IN SubSeq(front, 1, n) \o <<u>> \o SubSeq(front, n + 1, Len(front))
\* .slice(0, 3).map(([, data]) => data)
FoodChampions(ap) ==
  LET sorted == SortByCount(KeysInOrder(ap), ap)
      top == SubSeq(sorted, 1, IF Len(sorted) < 3 THEN Len(sorted) ELSE 3)
  IN [k \in DOMAIN top |->
        [count |-> PostCount(ap, top[k]), name |-> PosterName(FirstPostOf(ap, top[k]))]]

\* renderAnalyticsTab
Analytics(ap) ==
  LET totalPosts == Len(ap)
      claimedPosts == Cardinality({i \in DOMAIN ap : ap[i].claimedBy # Null})
      completedPosts == Cardinality({i \in DOMAIN ap : ap[i].completed})
  IN [totalPosts |-> totalPosts,
      claimedPosts |-> claimedPosts,
      completedPosts |-> completedPosts,
      percentSaved |-> IF totalPosts > 0 THEN MathRound(claimedPosts * 100, totalPosts) ELSE 0,
      foodWasteLbs |-> Half(totalPosts),
      foodChampions |-> FoodChampions(ap)]

\* The active-posts listener delivers the current result of its query; the
\* search effect then recomputes the filtered list.
DeliverActive(e) ==
  /\ feedPosts # QueryDocs(ActiveQuery(e))
  /\ feedPosts' = QueryDocs(ActiveQuery(e))
  /\ filteredPosts' = SearchFilter(feedPosts', searchQuery)
  /\ UNCHANGED <<allPosts, searchQuery, analytics>>
  /\ UNCHANGED postVars
  /\ UNCHANGED eventVars
  /\ UNCHANGED sessionVars
  /\ UNCHANGED inboxVars
  /\ UNCHANGED scanVars

\* The all-posts listener delivers the current result of its query; an open
\* analytics tab is rendered again.
DeliverAll(e) ==
  /\ allPosts # QueryDocs(AllPostsQuery(e))
  /\ allPosts' = QueryDocs(AllPostsQuery(e))
  /\ analytics' = IF analytics = <<>> THEN <<>> ELSE <<Analytics(allPosts')>>
  /\ UNCHANGED <<feedPosts, searchQuery, filteredPosts>>
  /\ UNCHANGED postVars
  /\ UNCHANGED eventVars
  /\ UNCHANGED sessionVars
  /\ UNCHANGED inboxVars
  /\ UNCHANGED scanVars

\* onChangeText={setSearchQuery} and the search effect.
SearchChanged(q) ==
  /\ searchQuery' = q
  /\ filteredPosts' = SearchFilter(feedPosts, q)
  /\ UNCHANGED <<feedPosts, allPosts, analytics>>
  /\ UNCHANGED postVars
  /\ UNCHANGED eventVars
  /\ UNCHANGED sessionVars
  /\ UNCHANGED inboxVars
  /\ UNCHANGED scanVars

\* The analytics tab is opened.
RenderAnalytics ==
  /\ analytics' = <<Analytics(allPosts)>>
  /\ UNCHANGED <<feedPosts, allPosts, searchQuery, filteredPosts>>
  /\ UNCHANGED postVars
  /\ UNCHANGED eventVars
  /\ UNCHANGED sessionVars
  /\ UNCHANGED inboxVars
  /\ UNCHANGED scanVars

\* The event screen over a store that no longer changes: every sequence of up
\* to MaxStore stored posts, nothing delivered yet.
InitView ==
  /\ \E store \in UNION {[1..n -> StoredPosts] : n \in 0..MaxStore} :
       /\ posts = store
       /\ atCompletion = [p \in DOMAIN store |->
                            IF store[p].completed THEN store[p].claimedBy ELSE "open"]
       /\ completedBy = [p \in DOMAIN store |->
                           IF store[p].completed THEN store[p].userId ELSE Null]
  /\ notifications = <<>>
  /\ tasks = [i \in Slots |-> Idle]
  /\ events = <<>>
  /\ calls = [i \in CallSlots |-> Idle]
  /\ outcome = Shown(Null, <<>>)
  /\ overlapped = FALSE
  /\ stack = <<"/login">>
  /\ live = {}
  /\ registry = {}
  /\ subCount = 0
  /\ authUser = Null
  /\ ctxUser = Null
  /\ signOutPending = FALSE
  /\ feedPosts = <<>>
  /\ allPosts = <<>>
  /\ searchQuery = <<>>
  /\ filteredPosts = <<>>
  /\ analytics = <<>>
  /\ unreadCount = 0
  /\ unreadDocs = {}
  /\ scanned = FALSE
  /\ scannedSet = FALSE

NextView ==
  \/ \E e \in EventIds : DeliverActive(e)
  \/ \E e \in EventIds : DeliverAll(e)
  \/ \E q \in Queries : SearchChanged(q)
  \/ RenderAnalytics

SpecView == InitView /\ [][NextView]_vars

\* ------------------------------------------------- notifications: read state
\* The user whose home screen is followed.
HomeUser == "ann"
\* Who posts and who claims in SpecInbox.
InboxUsers == {"ann", "bob"}

\* query(notificationsRef, where("userId", "==", user.uid), where("read", "==", false))
UnreadQuery(u) ==
  {n \in DOMAIN notifications : notifications[n].userId = u /\ ~notifications[n].read}

\* A press that toggles the flag.
ReadToggled(d) == [d EXCEPT !.read = ~@]
\* updateDoc(notifRef, {read: true})
ReadFields(d) == [d EXCEPT !.read = TRUE]

\* notificationPress on an item of the user's notifications list: markAsRead's
\* updateDoc resolves.
MarkAsRead(u, n) ==
  /\ n \in DOMAIN notifications
  /\ notifications[n].userId = u
  /\ notifications' = [notifications EXCEPT ![n] = ReadFields(@)]
  /\ UNCHANGED <<posts, tasks, atCompletion, completedBy>>
  /\ UNCHANGED eventVars
  /\ UNCHANGED sessionVars
  /\ UNCHANGED viewVars
  /\ UNCHANGED inboxVars
  /\ UNCHANGED scanVars

\* markAsRead's updateDoc rejects: the catch block swallows the error.
MarkAsReadFail(u, n) ==
  /\ n \in DOMAIN notifications
  /\ notifications[n].userId = u
  /\ UNCHANGED vars

\* The home screen's unread listener delivers the current result of its query:
\* setUnreadCount(snapshot.size).
DeliverUnread(u) ==
  /\ unreadDocs # {[id |-> n] @@ notifications[n] : n \in UnreadQuery(u)}
  /\ unreadDocs' = {[id |-> n] @@ notifications[n] : n \in UnreadQuery(u)}
  /\ unreadCount' = Cardinality(UnreadQuery(u))
  /\ UNCHANGED postVars
  /\ UNCHANGED eventVars
  /\ UNCHANGED sessionVars
  /\ UNCHANGED viewVars
  /\ UNCHANGED scanVars

NextInbox ==
  \/ \E u \in InboxUsers, e \in EventIds : CreatePost(u, e)
  \/ \E u \in InboxUsers, e \in EventIds, p \in PostIds : ClaimPress(u, e, p)
  \/ \E i \in Slots : ClaimUpdate(i)
  \/ \E i \in Slots : ClaimNotify(i)
  \/ \E u \in InboxUsers, n \in DOMAIN notifications : MarkAsRead(u, n)
  \/ \E u \in InboxUsers, n \in DOMAIN notifications : MarkAsReadFail(u, n)
  \/ DeliverUnread(HomeUser)

SpecInbox == Init /\ [][NextInbox]_vars

\* ------------------------------------------------ the two feeds of one client
\* One event screen and the users who create and complete posts.  Each
\* listener that has a newer result to deliver eventually delivers it: snapshots
\* of one subscription arrive in order, with no order across subscriptions.
NextFeed ==
  \/ \E u \in InboxUsers, e \in EventIds : CreatePost(u, e)
  \/ \E u \in InboxUsers, e \in EventIds, p \in PostIds : MarkComplete(u, e, p)
  \/ \E e \in EventIds : DeliverActive(e)
  \/ \E e \in EventIds : DeliverAll(e)

FairDelivery ==
  \A e \in EventIds : WF_vars(DeliverActive(e)) /\ WF_vars(DeliverAll(e))

SpecFeedFair == Init /\ [][NextFeed]_vars /\ FairDelivery

\* ================================================================ claims
\* Label by which a claim notification names user u.
UserLabel(u) == IF UserName(u) # Null THEN UserName(u) ELSE UserEmail(u)

\* The claim fields of a post that nobody has claimed, as createPost writes them.
Unclaimed(d) == d.claimedBy = Null /\ d.claimedByName = Null /\ d.claimedByEmail = Null

\* C1: completion is monotonic: no step of createPost, claimPost (claim or unclaim)
\* or markComplete takes a post's stored completed from true back to false.
C1_CompletionMonotonic ==
  [][\A p \in PostIds : posts[p].completed => posts'[p].completed]_vars

\* A completed post whose claim fields were written after it was completed.
C1_Witness ==
  \E p \in PostIds : posts[p].completed /\ posts[p].claimedBy # atCompletion[p]

\* C2 as stated: claimPost never replaces a stored claimant V by another user U.
C2_NeverReplacesClaimant ==
  [][\A p \in PostIds :
       posts[p].claimedBy # Null /\ posts'[p].claimedBy # Null
         => posts'[p].claimedBy = posts[p].claimedBy]_vars

\* C2, what claimPost does guarantee: the rejection is the disabled control of the
\* acting client's own snapshot.  No invocation carries a currentClaimedBy naming another user, and a
\* stored claimant V is replaced by U only by an invocation of U whose snapshot
\* showed the post unclaimed.
C2_RejectedOnOwnSnapshot ==
  [][/\ \A i \in Slots : tasks'[i].pc # "idle" =>
          tasks'[i].currentClaimedBy \in {Null, tasks'[i].user}
     /\ \A p \in PostIds :
          posts[p].claimedBy # Null /\ posts'[p].claimedBy \notin {Null, posts[p].claimedBy}
            => \E i \in Slots : /\ ClaimUpdate(i)
                                /\ tasks[i].postId = p
                                /\ tasks[i].user = posts'[p].claimedBy
                                /\ tasks[i].currentClaimedBy = Null]_vars

\* Two claims pressed on unclaimed snapshots, both written: the second write
\* replaced the first claimant.
C2_Witness ==
  \E i, j \in Slots :
    /\ i # j /\ tasks[i].pc = "addDoc" /\ tasks[j].pc = "addDoc"
    /\ tasks[i].postId = tasks[j].postId /\ tasks[i].user # tasks[j].user
    /\ tasks[i].currentClaimedBy = Null /\ tasks[j].currentClaimedBy = Null
    /\ posts[tasks[i].postId].claimedBy = tasks[j].user

\* C3: no step of claimPost depends on the stored claimant.  Whenever the store
\* accepts the updateDoc of a claim pressed by a non-owner on an unclaimed snapshot,
\* the stored claimedBy becomes that user whatever it was (last write wins) and the
\* invocation goes on, with no error, to its addDoc; whenever the store accepts that
\* addDoc, one claim notification to the owner is created for that claimer.
C3_LastWriteWins ==
  [][\A i \in Slots :
       /\ (ClaimUpdate(i) /\ tasks[i].currentClaimedBy = Null) =>
            /\ posts'[tasks[i].postId].claimedBy = tasks[i].user
            /\ tasks'[i] = [tasks[i] EXCEPT !.pc = "addDoc"]
       /\ ClaimNotify(i) =>
            /\ Len(notifications') = Len(notifications) + 1
            /\ notifications'[Len(notifications')].userId = posts[tasks[i].postId].userId
            /\ notifications'[Len(notifications')].message = UserLabel(tasks[i].user)
            /\ notifications'[Len(notifications')].type = "claim"]_vars

\* Two users claimed the same post from unclaimed snapshots; the first writer's
\* claim was overwritten by the second, who already has a notification, and the
\* first writer is about to add a notification as well.
C3_Witness ==
  \E i \in Slots :
    /\ tasks[i].pc = "addDoc" /\ tasks[i].currentClaimedBy = Null
    /\ posts[tasks[i].postId].claimedBy \notin {Null, tasks[i].user}
    /\ \E n \in 1..Len(notifications) :
         /\ notifications[n].postId = tasks[i].postId
         /\ notifications[n].message = UserLabel(posts[tasks[i].postId].claimedBy)

\* C4 as stated: an invocation that has stored claimedBy = B on A's post never ends
\* without having created its notification.
C4_NeverZeroNotifications ==
  [][\A i \in Slots :
       tasks[i].pc = "addDoc" /\ tasks'[i].pc = "idle"
         => Len(notifications') = Len(notifications) + 1]_vars

\* C4, what claimPost does guarantee: a claim by B on A's post that is stored goes
\* on to one addDoc; when the store accepts it, exactly one document is added, with
\* userId = A, type
\* "claim", read = false and the post's eventId and postId; when the store rejects
\* it, none is added.  No other step adds, changes or removes a notification.
C4_OneNotificationPerAcceptedClaim ==
  [][/\ \A i \in Slots :
          /\ (ClaimUpdate(i) /\ ~IsUnclaim(tasks[i])
                /\ tasks[i].user # posts[tasks[i].postId].userId) =>
               /\ posts'[tasks[i].postId].claimedBy = tasks[i].user
               /\ tasks'[i].pc = "addDoc"
          /\ ClaimNotify(i) =>
               /\ tasks'[i] = Idle
               /\ notifications' = Append(notifications,
                    [userId |-> posts[tasks[i].postId].userId, type |-> "claim",
                     message |-> UserLabel(tasks[i].user), read |-> FALSE,
                     eventId |-> posts[tasks[i].postId].eventId,
                     postId |-> tasks[i].postId])
     /\ (\A i \in Slots : ~ClaimNotify(i)) => notifications' = notifications]_vars

\* A stored claim by a non-owner together with the notification it produced.
C4_Witness ==
  \E p \in PostIds, n \in 1..Len(notifications) :
    /\ posts[p].claimedBy \notin {Null, posts[p].userId}
    /\ notifications[n].postId = p
    /\ notifications[n].userId = posts[p].userId
    /\ notifications[n].message = UserLabel(posts[p].claimedBy)
    /\ \A i \in Slots : tasks[i].pc = "idle"

\* C5: every notification is addressed to the owner of the post its postId names
\* and never to the user whose claim created it; no invocation of claimPost is by
\* the owner of its post, so a self-claim has no path to a notification.
C5_RecipientIsOwnerNotActor ==
  /\ \A n \in 1..Len(notifications) :
       /\ notifications[n].postId \in PostIds
       /\ notifications[n].userId = posts[notifications[n].postId].userId
       /\ notifications[n].message # UserLabel(notifications[n].userId)
  /\ \A i \in InFlight :
       /\ tasks[i].user # tasks[i].postOwnerId
       /\ tasks[i].postOwnerId = posts[tasks[i].postId].userId

\* A user who owns one post has claimed another user's post, and that owner was
\* notified.
C5_Witness ==
  \E p, q \in PostIds, n \in 1..Len(notifications) :
    /\ p # q /\ posts[p].userId # posts[q].userId
    /\ posts[p].claimedBy = posts[q].userId
    /\ notifications[n].postId = p
    /\ notifications[n].message = UserLabel(posts[q].userId)

\* C10: claim toggle symmetry: the updateDoc of an invocation pressed on a snapshot
\* showing claimedBy = U by U itself leaves claimedBy, claimedByName and
\* claimedByEmail absent, as createPost wrote them, and touches nothing else.
C10_ToggleSymmetry ==
  [][\A i \in Slots :
       (ClaimUpdate(i) /\ tasks[i].currentClaimedBy = tasks[i].user) =>
          /\ Unclaimed(posts'[tasks[i].postId])
          /\ posts'[tasks[i].postId] =
               [posts[tasks[i].postId] EXCEPT !.claimedBy = Null,
                  !.claimedByName = Null, !.claimedByEmail = Null]
          /\ notifications' = notifications]_vars

\* A post that was claimed (its owner holds the notification) and is unclaimed
\* again, with no invocation left in flight.
C10_Witness ==
  \E p \in PostIds, n \in 1..Len(notifications) :
    /\ notifications[n].postId = p
    /\ Unclaimed(posts[p]) /\ ~posts[p].completed
    /\ \A i \in Slots : tasks[i].pc = "idle"

\* An array in which no element occurs twice.
NoDuplicates(arr) == Cardinality(Range(arr)) = Len(arr)

\* C6: join idempotence: a join (typed code or QR scan) by a user who is already
\* in the attendees of the event it resolves to leaves the events collection as
\* it was, raises no error and navigates to that event, whether the handler sees
\* the membership in its own lookup or only the store does at the arrayUnion;
\* and no attendees array ever holds a user twice.
C6_JoinIdempotent ==
  [][/\ \A i \in CallSlots :
          /\ (/\ JoinLookup(i)
              /\ Matches(calls[i].joinCode) # {}
              /\ calls[i].user \in Range(events[FirstDoc(Matches(calls[i].joinCode))].attendees))
               => /\ events' = events
                  /\ outcome' = Shown("Already Joined", <<FirstDoc(Matches(calls[i].joinCode))>>)
          /\ (/\ JoinUpdate(i)
              /\ calls[i].user \in Range(events[calls[i].eventId].attendees))
               => /\ events' = events
                  /\ outcome'.alert # "Error"
                  /\ outcome'.route = <<calls[i].eventId>>
     /\ \A e \in DOMAIN events' : NoDuplicates(events'[e].attendees)]_vars

\* A member who joined an event has joined it again and was taken to it.
C6_Witness ==
  \E e \in DOMAIN events :
    /\ outcome = Shown("Already Joined", <<e>>)
    /\ Len(events[e].attendees) = 2

\* The join codes of the event documents are pairwise distinct.
DistinctJoinCodes ==
  \A e, f \in DOMAIN events : e # f => events[e].joinCode # events[f].joinCode

\* C7: as long as the creations are sequential (no createEvent has started its
\* uniqueness check while another was still in flight), the join codes of the
\* created events are pairwise distinct.
C7_SequentialCodesDistinct == ~overlapped => DistinctJoinCodes

\* Two events created one after the other.
C7_Witness == ~overlapped /\ Cardinality(DOMAIN events) = 2

C9_CreatorIsAttendee ==
  \A e \in DOMAIN events : events[e].createdBy \in Range(events[e].attendees)

\* An event that somebody has joined after its creation.
C9_Witness ==
  \E e \in DOMAIN events :
    /\ Len(events[e].attendees) = 2
    /\ events[e].attendees[1] = events[e].createdBy

\* C11 as stated: claimPost takes a stored claimedBy to absent only in an
\* invocation of the user who is the stored claimant at the time of the write.
C11_UnclaimOnlyByStoredClaimant ==
  [][\A p \in PostIds :
       posts[p].claimedBy # Null /\ posts'[p].claimedBy = Null
         => \E i \in Slots : /\ ClaimUpdate(i)
                             /\ tasks[i].postId = p
                             /\ tasks[i].user = posts[p].claimedBy]_vars

\* C11, what claimPost does guarantee: the unclaim branch is taken only by an
\* invocation whose own snapshot named the acting user as claimant.
C11_UnclaimOnlyFromOwnSnapshot ==
  [][\A p \in PostIds :
       posts[p].claimedBy # Null /\ posts'[p].claimedBy = Null
         => \E i \in Slots : /\ ClaimUpdate(i)
                             /\ tasks[i].postId = p
                             /\ tasks[i].currentClaimedBy = tasks[i].user]_vars

\* C12 as stated: a completed post's claimedBy equals its value at the moment of
\* completion.
C12_CompletedIsTerminal ==
  \A p \in PostIds : posts[p].completed => posts[p].claimedBy = atCompletion[p]

\* C13: every step that takes a post's completed from false to true is a
\* markComplete pressed by the user equal to the post's userId.
C13_CompleteOwnerOnly ==
  [][\A p \in PostIds :
       ~posts[p].completed /\ posts'[p].completed
         => /\ completedBy'[p] = posts[p].userId
            /\ \E e \in EventIds : MarkComplete(posts[p].userId, e, p)]_vars

\* A post completed while another user's claim on it is stored.
C13_Witness ==
  \E p \in PostIds :
    /\ posts[p].completed
    /\ atCompletion[p] \notin {Null, "open", posts[p].userId}

\* C14: no post's stored claimedBy equals the post's userId.
C14_OnlyNonOwnersClaim ==
  \A p \in PostIds : posts[p].claimedBy # posts[p].userId

\* A user who owns a post holds a claim on somebody else's post.
C14_Witness ==
  \E p, q \in PostIds :
    /\ p # q
    /\ posts[q].claimedBy = posts[p].userId
    /\ posts[p].claimedBy \notin {Null, posts[p].userId}

\* C15: an active-feed snapshot holds only posts whose stored completed is false;
\* a post that is not in the active feed of its event is in no later snapshot of
\* it; and every post, completed or not, is in the all-posts feed of its event.
C15_CompletedNeverReappears ==
  [][\A e \in EventIds :
       /\ \A p \in DOMAIN Snapshot(e)' : ~posts'[p].completed
       /\ \A p \in PostIds :
            /\ (posts[p].eventId = e /\ p \notin DOMAIN Snapshot(e))
                 => p \notin DOMAIN Snapshot(e)'
            /\ posts[p].eventId = e => p \in AllPostsQuery(e)']_vars

\* A completed post, written to after its completion, absent from the active feed
\* and present in the all-posts feed, beside a post that is still active.
C15_Witness ==
  \E e \in EventIds, p \in PostIds :
    /\ posts[p].completed /\ posts[p].claimedBy # atCompletion[p]
    /\ p \notin DOMAIN Snapshot(e) /\ p \in AllPostsQuery(e)
    /\ DOMAIN Snapshot(e) # {}

\* C16 as stated: at the moment the identity is cleared, every subscription that
\* was registered through registerUnsubscriber has been cancelled.  Every
\* subscription of the four kinds is registered when it is opened.
C16_NoneLiveWhenIdentityCleared ==
  [][(authUser # Null /\ authUser' = Null) => live = {}]_vars

\* C16, what logout does guarantee: when signOut is invoked, clearUnsubscribers
\* has run: no subscription is open and the registry is empty.
C16_ClearedWhenSignOutInvoked ==
  [][(~signOutPending /\ signOutPending') => (live' = {} /\ registry' = {})]_vars

\* A logout that cancelled an open subscription and is waiting for signOut.
C16_Witness == signOutPending /\ subCount > 0 /\ live = {} /\ authUser # Null

\* An error that names permission-denied, by its code or, lacking a code, by its
\* message.
IsPermissionError(err) ==
  \/ err.code = "permission-denied"
  \/ err.code = Null /\ err.message = "permission-denied"

\* C17: when the error callback of a subscription of any of the four kinds runs
\* with a permission-denied error, the route on top becomes /login; with any other
\* error the navigation stack stays as it is.
C17_PermissionDeniedToLogin ==
  [][\A s \in live, err \in ListenerErrors :
       ListenerError(s, err) =>
         IF IsPermissionError(err) THEN stack'[Len(stack')] = "/login"
                                   ELSE stack' = stack]_vars

\* The event screen was replaced by /login while its subscriptions were open: an
\* error callback has navigated.
C17_Witness ==
  /\ Len(stack) = 2 /\ stack[1] = "/home" /\ Top = "/login"
  /\ authUser # Null /\ ~signOutPending

\* C18: when the getDocs of a join, typed or scanned, resolves and no event has
\* the code looked up, the outcome is the Not Found alert without navigation, the
\* invocation ends there, and no event document changes.
C18_NoMatchNotFound ==
  [][\A i \in CallSlots :
       (/\ calls[i].pc = "getDocs"
        /\ calls'[i].pc # "getDocs"
        /\ \A e \in DOMAIN events : events[e].joinCode # calls[i].joinCode
        /\ outcome'.alert # "Error")
       => /\ outcome' = Shown("Not Found", <<>>)
          /\ calls'[i].pc = "idle"
          /\ events' = events]_vars

\* Not Found was shown while events exist, and nobody but the creators attends.
C18_Witness ==
  /\ outcome = Shown("Not Found", <<>>)
  /\ DOMAIN events # {}
  /\ \A e \in DOMAIN events : events[e].attendees = <<events[e].createdBy>>

\* text is code c in some letter case, with or without whitespace around it.
LowerChar(c) == CASE c = "A" -> "a" [] c = "B" -> "b" [] OTHER -> c
Spaces == {<<>>, <<" ">>}
IsVariantOf(text, c) ==
  \E pre \in Spaces, post \in Spaces :
    /\ Len(text) = Len(pre) + Len(c) + Len(post)
    /\ SubSeq(text, 1, Len(pre)) = pre
    /\ SubSeq(text, Len(pre) + Len(c) + 1, Len(text)) = post
    /\ \A k \in 1..Len(c) : text[Len(pre) + k] \in {c[k], LowerChar(c[k])}

\* This step starts a lookup of code c for user u.
LooksUp(u, c) ==
  \E i \in CallSlots :
    /\ calls[i].pc = "idle"
    /\ calls'[i].pc = "getDocs"
    /\ calls'[i].user = u
    /\ calls'[i].joinCode = c

\* C19 as stated: for every join code c, typing c in any letter case with
\* whitespace around it, and scanning "GRUBIO:" followed by c, both start a lookup
\* of c; a scanned payload without the prefix is looked up whole.
C19_TypedAndScannedLookUpSameCode ==
  [][\A u \in Members :
       /\ \A c \in Codes, text \in TypedTexts :
            (IsVariantOf(text, c) /\ JoinTypedPress(u, text)) => LooksUp(u, c)
       /\ \A c \in Codes : JoinScanPress(u, SharePayload(c)) => LooksUp(u, c)
       /\ \A data \in ScannedData :
            (~StartsWith(data, Prefix) /\ JoinScanPress(u, data))
              => LooksUp(u, ToUpper(data))]_vars

\* C19, what the two paths do guarantee: the same holds for the typed texts that
\* fit the field, and once a lookup is started the store is changed only by adding
\* the user to the attendees of the event found, whichever path started it.
C19_FittingTextAndScanLookUpSameCode ==
  [][/\ \A u \in Members :
          /\ \A c \in Codes, text \in TypedTexts :
               (IsVariantOf(text, c) /\ Len(text) <= FieldMaxLength /\ JoinTypedPress(u, text))
                 => LooksUp(u, c)
          /\ \A c \in Codes : JoinScanPress(u, SharePayload(c)) => LooksUp(u, c)
          /\ \A data \in ScannedData :
               (~StartsWith(data, Prefix) /\ JoinScanPress(u, data))
                 => LooksUp(u, ToUpper(data))
     /\ \A i \in CallSlots :
          (calls[i].pc = "updateDoc" /\ calls'[i].pc = "idle" /\ events' # events)
            => /\ events[calls[i].eventId].joinCode = calls[i].joinCode
               /\ events' = [events EXCEPT ![calls[i].eventId].attendees =
                               IF calls[i].user \in Range(@) THEN @
                               ELSE Append(@, calls[i].user)]]_vars

\* C20 as stated, for every invocation of createEvent: while an unused code
\* exists, a running invocation leads to one more event document being written.
C20_EventuallyWritesOne ==
  \A i \in CallSlots, n \in 0..MaxEvents :
    (i \in CreatesInFlight /\ UnusedCodes # {} /\ Cardinality(DOMAIN events) = n)
      ~> (Cardinality(DOMAIN events) > n)

\* C20, what the loop does guarantee: an invocation whose drawn code is in use
\* when isJoinCodeUnique resolves writes nothing, shows nothing and stays in the
\* loop; it leaves the loop towards addDoc only with a code no event has, and an
\* addDoc adds exactly one document.
C20_RedrawsWhileInUse ==
  [][\A i \in CallSlots :
       /\ (/\ \E redraw \in Codes : CreateEventCheck(i, redraw)
           /\ \E e \in DOMAIN events : events[e].joinCode = calls[i].joinCode)
            => (/\ calls'[i].pc = "isJoinCodeUnique"
                /\ events' = events /\ outcome' = outcome)
       /\ (calls[i].pc = "isJoinCodeUnique" /\ calls'[i].pc = "addDoc")
            => (/\ \A e \in DOMAIN events : events[e].joinCode # calls[i].joinCode
                /\ calls'[i].joinCode = calls[i].joinCode
                /\ events' = events /\ outcome' = outcome)
       /\ (calls[i].pc = "addDoc" /\ calls'[i].pc = "idle" /\ outcome'.alert # "Error")
            => Cardinality(DOMAIN events') = Cardinality(DOMAIN events) + 1]_vars

\* C20, the liveness the loop does have: unless a call to the store is rejected
\* or the other invocations use up the codes, a running invocation ends.
C20_EndsUnlessRejectedOrFull ==
  \A i \in CallSlots :
    (i \in CreatesInFlight) ~> (calls[i].pc = "idle" \/ UnusedCodes = {})

\* Every code is in use and an invocation is drawing codes.
C20_Witness == UnusedCodes = {} /\ \E i \in CallSlots : calls[i].pc = "isJoinCodeUnique"

\* C21: once created, an event document stays in the store with the same title,
\* description, date, createdBy and joinCode; its attendees never lose a member
\* and never hold the same user id twice.
C21_OnlyAttendeeAppend ==
  [][\A e \in DOMAIN events :
       /\ e \in DOMAIN events'
       /\ [events'[e] EXCEPT !.attendees = events[e].attendees] = events[e]
       /\ Range(events[e].attendees) \subseteq Range(events'[e].attendees)
       /\ NoDuplicates(events'[e].attendees)]_vars

\* Two events exist, and one of them was joined after its creation.
C21_Witness ==
  /\ Cardinality(DOMAIN events) = 2
  /\ \E e \in DOMAIN events : Len(events[e].attendees) = 2

\* C22: a rendered analytics tab shows, for the all-posts list it was rendered
\* from: the number of posts, the number with a claimant, the number completed,
\* 100 * claimed / total rounded to the nearest integer (0 for no posts) and half
\* the number of posts; 4 posts with 3 claimed and 2 completed give 4, 3, 2, 75
\* and 2.0.
C22_AnalyticsAggregates ==
  analytics # <<>> =>
    LET a == analytics[1]
        total == Len(allPosts)
        claimed == Cardinality({i \in DOMAIN allPosts : allPosts[i].claimedBy # Null})
        completed == Cardinality({i \in DOMAIN allPosts : allPosts[i].completed})
    IN /\ a.totalPosts = total
       /\ a.claimedPosts = claimed
       /\ a.completedPosts = completed
       /\ total = 0 => a.percentSaved = 0
       /\ total > 0 => /\ 2 * (claimed * 100 - a.percentSaved * total) <= total
                       /\ 2 * (a.percentSaved * total - claimed * 100) < total
       /\ 10 * (10 * a.foodWasteLbs.units + a.foodWasteLbs.tenths) = 50 * total
       /\ a.foodWasteLbs.tenths \in 0..9
       /\ (total = 4 /\ claimed = 3 /\ completed = 2)
            => /\ a.percentSaved = 75
               /\ a.foodWasteLbs = [units |-> 2, tenths |-> 0]

\* Analytics rendered for 4 posts of which 3 are claimed and 2 are completed.
C22_Witness ==
  /\ analytics # <<>>
  /\ Len(allPosts) = 4
  /\ analytics[1].claimedPosts = 3
  /\ analytics[1].completedPosts = 2
  /\ analytics[1].percentSaved = 75
  /\ analytics[1].foodWasteLbs = [units |-> 2, tenths |-> 0]

\* Analytics rendered for 3 posts of which 2 are claimed and one is completed:
\* the percentage is rounded up to 67 and the weight is 1.5.
C22_WitnessRounded ==
  /\ analytics # <<>>
  /\ Len(allPosts) = 3
  /\ analytics[1].claimedPosts = 2
  /\ analytics[1].completedPosts = 1
  /\ analytics[1].percentSaved = 67
  /\ analytics[1].foodWasteLbs = [units |-> 1, tenths |-> 5]

\* Authors of the posts in the all-posts list.
Posters == {allPosts[i].userId : i \in DOMAIN allPosts}

\* C23: foodChampions has at most 3 entries; they are the post counts, over all
\* posts, of distinct authors, in non-increasing order, and no author left out has
\* more posts than a listed one.
C23_FoodChampions ==
  analytics # <<>> =>
    LET champs == analytics[1].foodChampions
    IN /\ Len(champs) <= 3
       /\ \E us \in [DOMAIN champs -> Posters] :
            /\ \A j, k \in DOMAIN champs : j # k => us[j] # us[k]
            /\ \A k \in DOMAIN champs :
                 champs[k].count = Cardinality({i \in DOMAIN allPosts : allPosts[i].userId = us[k]})
            /\ \A j, k \in DOMAIN champs : j < k => champs[j].count >= champs[k].count
            /\ \A u \in Posters \ {us[k] : k \in DOMAIN champs} :
                 \A k \in DOMAIN champs :
                   Cardinality({i \in DOMAIN allPosts : allPosts[i].userId = u}) <= champs[k].count

\* Three authors have posted four posts; the author of the two oldest posts,
\* last in the list, is listed first.
C23_Witness ==
  /\ analytics # <<>>
  /\ Cardinality(Posters) = 3
  /\ Len(allPosts) = 4
  /\ allPosts[3].userId = allPosts[4].userId
  /\ analytics[1].foodChampions[1] =
       [count |-> 2, name |-> PosterName(allPosts[3])]
  /\ analytics[1].foodChampions[2].count = 1

\* Four authors with one post each: one of them is left out.
C23_WitnessLeftOut ==
  /\ analytics # <<>>
  /\ Cardinality(Posters) = 4
  /\ Len(analytics[1].foodChampions) = 3

\* The posts of list whose title contains q, letter case ignored.
TitleMatches(list, q) ==
  SelectSeq(list, LAMBDA post : Includes(ToLowerCase(post.title), ToLowerCase(q)))
\* The posts of list one of whose title, description and location contains q,
\* letter case ignored.
AnyFieldMatches(list, q) ==
  SelectSeq(list, LAMBDA post :
    \E f \in {post.title, post.description, post.location} :
      Includes(ToLowerCase(f), ToLowerCase(q)))

C25_NameElseEmailAsPrinted ==
  [][\A i \in Slots :
       ClaimNotify(i) =>
         notifications'[Len(notifications')].message =
           (IF UserName(tasks[i].user) # Null THEN UserName(tasks[i].user)
            ELSE IF UserEmail(tasks[i].user) # Null THEN UserEmail(tasks[i].user)
            ELSE "null")]_vars

\* Notifications by display name and by email have been created.
C25_Witness ==
  /\ \E n \in DOMAIN notifications : notifications[n].message = "Ann"
  /\ \E n \in DOMAIN notifications : notifications[n].message = "bob@x"

\* C26: a notification is created with read = false; no step takes a stored
\* read from true to false or removes a notification; and the home screen's unread
\* count is the number of documents of the last delivered snapshot that are
\* addressed to the user and unread.
C26_ReadMonotonic ==
  [][/\ \A n \in DOMAIN notifications :
          /\ n \in DOMAIN notifications'
          /\ notifications[n].read => notifications'[n].read
     /\ \A n \in DOMAIN notifications' \ DOMAIN notifications : ~notifications'[n].read
     /\ unreadCount' = Cardinality({d \in unreadDocs' : d.userId = HomeUser /\ ~d.read})
     /\ \A d \in unreadDocs' : d.userId = HomeUser /\ ~d.read]_vars

\* The user has one notification read and one unread, another user has been
\* notified too, and the badge shows 1.
C26_Witness ==
  /\ \E n, m \in DOMAIN notifications :
       /\ notifications[n].userId = HomeUser /\ notifications[n].read
       /\ notifications[m].userId = HomeUser /\ ~notifications[m].read
  /\ unreadCount = 1

\* The active-posts list is the all-posts list without its completed posts.
FeedsAgree == feedPosts = SelectSeq(allPosts, LAMBDA d : ~d.completed)

\* C27: if from some point on no post document is written, then from some point
\* on the client's active-posts list equals its all-posts list restricted to the
\* posts that are not completed.
C27_FeedsEventuallyAgree ==
  <>[][posts' = posts]_vars => <>[]FeedsAgree

\* The feeds disagree: the all-posts list already shows a post as completed that
\* the active-posts list still shows.
C27_Witness ==
  /\ ~FeedsAgree
  /\ \E k \in DOMAIN feedPosts : \E j \in DOMAIN allPosts :
       allPosts[j].id = feedPosts[k].id /\ allPosts[j].completed

\* C28 as stated: claimPost is all-or-nothing on failure.  An invocation that ends
\* in the error alert ("Could not update claim status.") has stored nothing of its
\* own: it ends at its updateDoc, never after the updateDoc resolved and wrote
\* claimedBy; so no stored claim by a non-owner is left without its notification.
C28_ErrorOutcomeStoresNothing ==
  [][\A i \in Slots :
       (ClaimUpdateFail(i) \/ ClaimNotifyFail(i)) => tasks[i].pc = "updateDoc"]_vars

\* C28, what the catch block does guarantee: an invocation that ends in the error
\* alert at its updateDoc leaves the post and the notifications as they were, and
\* one that ends in the error alert at its addDoc leaves the claim it stored and
\* adds no notification.
C28_ErrorAtUpdateStoresNothing ==
  [][\A i \in Slots :
       /\ ClaimUpdateFail(i) => posts' = posts /\ notifications' = notifications
       /\ ClaimNotifyFail(i) =>
            /\ posts' = posts /\ notifications' = notifications
            /\ tasks[i].postOwnerId # tasks[i].user]_vars

\* The error alert after the claim was stored: the post is claimed by a non-owner,
\* nothing is in flight and no notification exists.
C28_Witness ==
  /\ \E p \in PostIds : posts[p].claimedBy \notin {Null, posts[p].userId}
  /\ notifications = <<>>
  /\ \A i \in Slots : tasks[i].pc = "idle"

\* C29 as stated: no subscription is opened for a session that is being logged
\* out.  When signOut completes, no unread-notifications listener of a home screen
\* that was mounted again after logout's navigation to /login is open.  (Logout
\* closes every subscription, so any listener open at that step was opened while
\* signOut was pending.)
C29_NoUnreadListenerWhenSignOutCompletes ==
  [][SignOutDone =>
       ~\E s \in live : s.kind = "unread" /\ stack[s.pos] = "/home"]_vars

\* C29, what the code does guarantee: while signOut is pending and the login page
\* is on top, a subscription is opened only by the login page's redirect, taken
\* while the auth context still reports a user.
C29_OnlyRedirectOpensDuringLogout ==
  [][(signOutPending /\ Top = "/login" /\ ~(live' \subseteq live)) =>
       (LoginRedirect /\ ctxUser # Null /\ authUser # Null)]_vars

\* The login page has bounced back to /home during a logout: the home screen's
\* unread listener is open and registered while signOut is still pending.
C29_Witness ==
  /\ signOutPending /\ Top = "/home"
  /\ \E s \in live : s.kind = "unread" /\ s.id \in registry

\* The QR join runs of the followed scanner screen that are in flight.
ScanRuns ==
  {i \in CallSlots : calls[i].pc \in {"getDocs", "updateDoc"}
                       /\ calls[i].via = "qr" /\ calls[i].user = ScanUser}
\* Number of times x occurs in the array.
Occurrences(arr, x) == Cardinality({k \in DOMAIN arr : arr[k] = x})

\* C30 as stated: at most one join protocol run is in flight per scanner screen; a
\* second barcodeScanned callback delivered before the scanned flag set by the
\* first one is rendered does not start a second lookup/append.
C30_OneRunInFlight == Cardinality(ScanRuns) <= 1

\* C30, what the scanner does guarantee: once the flag set by a callback has been
\* rendered, no callback starts a run until "Scan Again" has reset it; and however
\* the runs interleave, when a run's updateDoc resolves the event's attendees
\* contains the user exactly once, and no attendees array ever holds the user twice.
C30_GuardedOnceRenderedAndJoinedOnce ==
  [][/\ scanned => ScanRuns' \subseteq ScanRuns
     /\ \A i \in ScanRuns :
          JoinUpdate(i) => Occurrences(events'[calls[i].eventId].attendees, ScanUser) = 1
     /\ \A e \in DOMAIN events' : Occurrences(events'[e].attendees, ScanUser) <= 1]_vars

\* Two runs of one scanner screen for the same code have interleaved and both have
\* ended; the event lists the user once.
C30_Witness ==
  /\ ScanRuns = {} /\ scannedSet /\ ~scanned
  /\ outcome.alert = Null
  /\ \E e \in DOMAIN events : Occurrences(events[e].attendees, ScanUser) = 1

====
